---- MODULE Spec2Model ----
(***************************************************************************)
(* Resume analysis pipeline of Carrer-Craft-Backend                        *)
(* (src/ats_utils/ats_ai.py, src/main.py).                                 *)
(*                                                                         *)
(* Representation of Python values.  Every value is a pair of its Python   *)
(* type and its payload:                                                   *)
(*   None  <<"none">>                bool  <<"bool", TRUE>>                *)
(*   int   <<"int", 77>>             float <<"float", "88.5">>             *)
(*   str   <<"str",  <<lexemes>> >>                                        *)
(*   list  <<"list", <<values>> >>                                         *)
(*   dict  <<"dict", << <<key, value>>, ... >> >>   (insertion order;      *)
(*         a key is the lexeme tuple of a str, and occurs once)            *)
(* A Python str is the tuple of its lexemes; concatenating the lexemes     *)
(* gives the Python string.  A lexeme is one of the characters             *)
(*   {  }  [  ]  :  ,  "  '  the space and the newline,                     *)
(* or a maximal run of other characters (a word, a number).  The model's   *)
(* strings hold no backslash and no control character but the newline,     *)
(* and the strings whose repr is taken hold no newline.                    *)
(***************************************************************************)
EXTENDS Integers, Sequences, FiniteSets, TLC

PyNone == <<"none">>
PyBool(b) == <<"bool", b>>
PyInt(n) == <<"int", n>>
PyFloat(lex) == <<"float", lex>>
PyStr(s) == <<"str", s>>
PyList(xs) == <<"list", xs>>
PyDict(f) == <<"dict", f>>

\* The type and the payload of a value.
TypeOf(x) == x[1]
ValOf(x) == x[2]

\* A str of one lexeme, and the key it makes in a dict.
S(a) == PyStr(<<a>>)
K(a) == <<a>>
EmptyStr == PyStr(<<>>)
EmptyList == PyList(<<>>)
EmptyDict == PyDict(<<>>)

IsStr(x) == TypeOf(x) = "str"
IsDict(x) == TypeOf(x) = "dict"
IsList(x) == TypeOf(x) = "list"

\* Python truthiness (bool(x)).
Truthy(x) ==
    CASE TypeOf(x) = "none" -> FALSE
      [] TypeOf(x) = "bool" -> ValOf(x)
      [] TypeOf(x) = "int" -> ValOf(x) # 0
      [] TypeOf(x) = "float" -> ValOf(x) \notin {"0.0", "-0.0"}
      [] TypeOf(x) = "str" -> Len(ValOf(x)) > 0
      [] TypeOf(x) = "list" -> Len(ValOf(x)) > 0
      [] TypeOf(x) = "dict" -> Len(ValOf(x)) > 0

\* a or b
PyOr(a, b) == IF Truthy(a) THEN a ELSE b

\* The keys of a dict d, k in d, and d[k] for a key it has.
Keys(d) == {ValOf(d)[i][1] : i \in DOMAIN ValOf(d)}
HasKey(d, k) == k \in Keys(d)
Item(d, k) == ValOf(d)[CHOOSE i \in DOMAIN ValOf(d) : ValOf(d)[i][1] = k][2]

\* d.get(k) of a dict d.
DictGet(d, k) == IF HasKey(d, k) THEN Item(d, k) ELSE PyNone

\* d.get(k, dflt) of a dict d.
DictGetOr(d, k, dflt) == IF HasKey(d, k) THEN Item(d, k) ELSE dflt

\* d[k] = x of a dict d: in place for a key it has, at the end for a new one.
DictSet(d, k, x) ==
    IF HasKey(d, k)
    THEN PyDict([i \in DOMAIN ValOf(d) |->
                   IF ValOf(d)[i][1] = k THEN <<k, x>> ELSE ValOf(d)[i]])
    ELSE PyDict(Append(ValOf(d), <<k, x>>))

SetMin(A) == CHOOSE a \in A : \A b \in A : a <= b
SetMax(A) == CHOOSE a \in A : \A b \in A : b <= a

(***************************************************************************)
(* Lexemes.                                                                *)
(***************************************************************************)
QUOTE == "\""
NEWLINE == "\n"
FORMFEED == "\f"
\* The whitespace json.loads skips between tokens (of " \t\n\r").
IsWs(c) == c \in {" ", NEWLINE}
\* str.isspace(): what strip() and split() take for whitespace; the form
\* feed stands for the characters that are whitespace to str only.
IsSpace(c) == IsWs(c) \/ c = FORMFEED

\* The integer literals of the modelled texts and their values.
NumVal ==
    ("0" :> 0) @@ ("1" :> 1) @@ ("2" :> 2) @@ ("42" :> 42) @@ ("50" :> 50)
    @@ ("55" :> 55) @@ ("77" :> 77) @@ ("88" :> 88) @@ ("100" :> 100)
    @@ ("150" :> 150) @@ ("-5" :> (-5))
FloatLexemes == {"88.5", "0.0"}

(***************************************************************************)
(* json.loads on a lexeme tuple (the standard decoder: objects, arrays,    *)
(* strings, numbers, true/false/null, whitespace between tokens; a later   *)
(* duplicate key overrides an earlier one).                                *)
(***************************************************************************)
ParseFail == [ok |-> FALSE, val |-> PyNone, next |-> 0]
ParseOk(x, n) == [ok |-> TRUE, val |-> x, next |-> n]

\* The first position >= i that holds no whitespace (Len(t)+1 at the end).
RECURSIVE SkipWs(_, _)
SkipWs(t, i) == IF i <= Len(t) /\ IsWs(t[i]) THEN SkipWs(t, i + 1) ELSE i

\* The position of the first quote at or after i, 0 if none.
RECURSIVE NextQuote(_, _)
NextQuote(t, i) ==
    IF i > Len(t) THEN 0
    ELSE IF t[i] = QUOTE THEN i
    ELSE NextQuote(t, i + 1)

\* The position of the quote closing the string opened at i, 0 if none.
CloseQuote(t, i) == NextQuote(t, i + 1)

ParseString(t, i) ==
    LET j == CloseQuote(t, i)
    IN  IF j = 0 THEN ParseFail
        ELSE IF \E k \in (i + 1)..(j - 1) : t[k] \in {NEWLINE, FORMFEED} THEN ParseFail
        ELSE ParseOk(PyStr(SubSeq(t, i + 1, j - 1)), j + 1)

RECURSIVE ParseValue(_, _), ParseMembers(_, _, _), ParseElements(_, _, _)

\* The members of an object from the key at i on; acc holds those read.
ParseMembers(t, i, acc) ==
    IF i > Len(t) \/ t[i] # QUOTE THEN ParseFail
    ELSE LET key == ParseString(t, i)
         IN  IF ~key.ok THEN ParseFail
             ELSE LET c == SkipWs(t, key.next)
                  IN  IF c > Len(t) \/ t[c] # ":" THEN ParseFail
                      ELSE LET val == ParseValue(t, SkipWs(t, c + 1))
                           IN  IF ~val.ok THEN ParseFail
                               ELSE LET e == SkipWs(t, val.next)
                                        acc2 == ValOf(DictSet(PyDict(acc), ValOf(key.val), val.val))
                                    IN  IF e > Len(t) THEN ParseFail
                                        ELSE IF t[e] = "}"
                                             THEN ParseOk(PyDict(acc2), e + 1)
                                        ELSE IF t[e] = ","
                                             THEN ParseMembers(t, SkipWs(t, e + 1), acc2)
                                        ELSE ParseFail

\* The elements of an array from the value at i on; acc holds those read.
ParseElements(t, i, acc) ==
    LET val == ParseValue(t, i)
    IN  IF ~val.ok THEN ParseFail
        ELSE LET e == SkipWs(t, val.next)
                 acc2 == Append(acc, val.val)
             IN  IF e > Len(t) THEN ParseFail
                 ELSE IF t[e] = "]" THEN ParseOk(PyList(acc2), e + 1)
                 ELSE IF t[e] = "," THEN ParseElements(t, SkipWs(t, e + 1), acc2)
                 ELSE ParseFail

ParseValue(t, i) ==
    IF i > Len(t) THEN ParseFail
    ELSE LET c == t[i]
             j == SkipWs(t, i + 1)
         IN  CASE c = "{" ->
                    IF j <= Len(t) /\ t[j] = "}" THEN ParseOk(EmptyDict, j + 1)
                    ELSE ParseMembers(t, j, <<>>)
               [] c = "[" ->
                    IF j <= Len(t) /\ t[j] = "]" THEN ParseOk(EmptyList, j + 1)
                    ELSE ParseElements(t, j, <<>>)
               [] c = QUOTE -> ParseString(t, i)
               [] c \in DOMAIN NumVal -> ParseOk(PyInt(NumVal[c]), i + 1)
               [] c \in FloatLexemes -> ParseOk(PyFloat(c), i + 1)
               [] c = "true" -> ParseOk(PyBool(TRUE), i + 1)
               [] c = "false" -> ParseOk(PyBool(FALSE), i + 1)
               [] c = "null" -> ParseOk(PyNone, i + 1)
               [] OTHER -> ParseFail

\* json.loads(t): [raised, val]; raised stands for json.JSONDecodeError.
json_loads(t) ==
    LET r == ParseValue(t, SkipWs(t, 1))
    IN  IF r.ok /\ SkipWs(t, r.next) = Len(t) + 1
        THEN [raised |-> FALSE, val |-> r.val]
        ELSE [raised |-> TRUE, val |-> PyNone]

\* str.strip()
strip(t) ==
    LET keep == {j \in 1..Len(t) : ~IsSpace(t[j])}
    IN  IF keep = {} THEN <<>> ELSE SubSeq(t, SetMin(keep), SetMax(keep))

\* str.find(c) and str.rfind(c) for a one-character c: 0-based, -1 if absent.
find(t, c) ==
    LET at == {j \in 1..Len(t) : t[j] = c}
    IN  IF at = {} THEN -1 ELSE SetMin(at) - 1
rfind(t, c) ==
    LET at == {j \in 1..Len(t) : t[j] = c}
    IN  IF at = {} THEN -1 ELSE SetMax(at) - 1

\* raw[a : b] for 0 <= a <= b
Slice(t, a, b) == SubSeq(t, a + 1, b)

(***************************************************************************)
(* _safe_parse_json(raw): [raised, val].  raised is the AttributeError of  *)
(* raw.strip() on a value that is neither None nor a str.                  *)
(***************************************************************************)
safe_parse_json(raw) ==
    IF raw = PyNone THEN [raised |-> FALSE, val |-> PyNone]
    ELSE IF ~IsStr(raw) THEN [raised |-> TRUE, val |-> PyNone]
    ELSE LET text == strip(ValOf(raw))
             first == json_loads(text)
             start == find(text, "{")
             end == rfind(text, "}")
         IN  IF ~first.raised THEN [raised |-> FALSE, val |-> first.val]
             ELSE IF start # -1 /\ end # -1 /\ end > start
                  THEN LET second == json_loads(Slice(text, start, end + 1))
                       IN  IF second.raised
                           THEN [raised |-> FALSE, val |-> PyNone]
                           ELSE [raised |-> FALSE, val |-> second.val]
             ELSE [raised |-> FALSE, val |-> PyNone]

(***************************************************************************)
(* str(x) and repr(x).                                                     *)
(***************************************************************************)
APOS == "'"
IntLexeme(n) == CHOOSE l \in DOMAIN NumVal : NumVal[l] = n

repr_str(s) ==
    IF APOS \in {s[i] : i \in DOMAIN s} /\ QUOTE \notin {s[i] : i \in DOMAIN s}
    THEN <<QUOTE>> \o s \o <<QUOTE>>
    ELSE <<APOS>> \o s \o <<APOS>>

RECURSIVE py_repr(_), ReprItems(_, _), ReprPairs(_, _)
\* repr of the elements xs[i..], joined by ", "
ReprItems(xs, i) ==
    IF i > Len(xs) THEN <<>>
    ELSE py_repr(xs[i])
         \o (IF i < Len(xs) THEN <<",", " ">> ELSE <<>>)
         \o ReprItems(xs, i + 1)
\* repr of the pairs ps[i..], joined by ", "
ReprPairs(ps, i) ==
    IF i > Len(ps) THEN <<>>
    ELSE repr_str(ps[i][1]) \o <<":", " ">> \o py_repr(ps[i][2])
         \o (IF i < Len(ps) THEN <<",", " ">> ELSE <<>>)
         \o ReprPairs(ps, i + 1)
py_repr(x) ==
    CASE TypeOf(x) = "none" -> <<"None">>
      [] TypeOf(x) = "bool" -> IF ValOf(x) THEN <<"True">> ELSE <<"False">>
      [] TypeOf(x) = "int" -> <<IntLexeme(ValOf(x))>>
      [] TypeOf(x) = "float" -> <<ValOf(x)>>
      [] TypeOf(x) = "str" -> repr_str(ValOf(x))
      [] TypeOf(x) = "list" -> <<"[">> \o ReprItems(ValOf(x), 1) \o <<"]">>
      [] TypeOf(x) = "dict" -> <<"{">> \o ReprPairs(ValOf(x), 1) \o <<"}">>

py_str(x) == IF IsStr(x) THEN x ELSE PyStr(py_repr(x))

(***************************************************************************)
(* _model_response_to_text(response).  Any exception inside the try block  *)
(* (a .get on a value that is no dict, choices[0] on a value that is no    *)
(* list) ends in str(response).  The result need not be a str: a truthy    *)
(* content of any type is returned as it is.                               *)
(***************************************************************************)
ResponseTail(response) ==
    PyOr(PyOr(DictGet(response, K("output")), DictGet(response, K("result"))),
         py_str(response))

model_response_to_text(response) ==
    IF ~IsDict(response) THEN py_str(response)
    ELSE LET choices == PyOr(DictGet(response, K("choices")), EmptyList)
         IN  IF ~Truthy(choices) THEN ResponseTail(response)
             ELSE IF ~IsList(choices) THEN py_str(response)
             ELSE LET first == ValOf(choices)[1]
                  IN  IF ~IsDict(first) THEN py_str(response)
                      ELSE LET msg == PyOr(DictGet(first, K("message")), EmptyDict)
                           IN  IF ~IsDict(msg) THEN py_str(response)
                               ELSE LET content ==
                                            PyOr(PyOr(DictGet(msg, K("content")),
                                                      DictGet(first, K("text"))),
                                                 EmptyStr)
                                    IN  IF Truthy(content) THEN content
                                        ELSE ResponseTail(response)

(***************************************************************************)
(* _merge_defaults(data, jd_present)                                       *)
(***************************************************************************)
DefaultExtracted ==
    PyDict(<< <<K("name"), EmptyStr>>,
              <<K("email"), EmptyStr>>,
              <<K("position"), EmptyStr>>,
              <<K("experience"), S("Fresher")>>,
              <<K("skills"), EmptyList>> >>)

DefaultSkillsRelevance ==
    PyDict(<< <<K("matched"), EmptyList>>, <<K("missing"), EmptyList>> >>)

DEFAULT_SCORE == 50

defaults ==
    PyDict(<< <<K("score"), PyInt(DEFAULT_SCORE)>>,
              <<K("matched_keywords"), EmptyList>>,
              <<K("missing_keywords"), EmptyList>>,
              <<K("formatting_issues"), EmptyList>>,
              <<K("suggestions"), EmptyList>>,
              <<K("strengths"), EmptyList>>,
              <<K("extracted"), DefaultExtracted>>,
              <<K("grammatical_errors"), EmptyList>>,
              <<K("professional_tone"), EmptyStr>>,
              <<K("unnecessary_info"), EmptyList>>,
              <<K("experience_relevance"), EmptyStr>>,
              <<K("skills_relevance"), DefaultSkillsRelevance>> >>)

\* d.update(dflt): the defaults also replace the values d has.
FillMissing_Overwrite(d, dflt) ==
    PyDict([i \in DOMAIN ValOf(d) |->
              IF HasKey(dflt, ValOf(d)[i][1])
              THEN <<ValOf(d)[i][1], Item(dflt, ValOf(d)[i][1])>>
              ELSE ValOf(d)[i]]
           \o SelectSeq(ValOf(dflt), LAMBDA q : ~HasKey(d, q[1])))

\* for key, val in dflt.items(): if key not in d: d[key] = val
FillMissing(d, dflt) ==
    PyDict(ValOf(d) \o SelectSeq(ValOf(dflt), LAMBDA q : ~HasKey(d, q[1])))

\* if not isinstance(d.get(k), dict): d[k] = {}
EnsureNested(d, k) ==
    IF IsDict(DictGet(d, k)) THEN d ELSE DictSet(d, k, EmptyDict)

\* Without the block: the values of the input stay.
ApplyNoJd_Skip(d) == d

\* The block with skills_relevance.missing set to the list that
\* missing_keywords held, before missing_keywords is replaced.
ApplyNoJd_CopyBeforeClear(d) ==
    LET d1 == DictSet(d, K("skills_relevance"),
                      DictSet(Item(d, K("skills_relevance")), K("missing"),
                              Item(d, K("missing_keywords"))))
        d2 == DictSet(d1, K("missing_keywords"), EmptyList)
    IN  DictSet(d2, K("extracted"),
                DictSet(Item(d2, K("extracted")), K("position"), EmptyStr))

\* the "if not jd_present" block
ApplyNoJd(d) ==
    LET d1 == DictSet(d, K("missing_keywords"), EmptyList)
        d2 == DictSet(d1, K("skills_relevance"),
                      DictSet(Item(d1, K("skills_relevance")), K("missing"), EmptyList))
    IN  DictSet(d2, K("extracted"),
                DictSet(Item(d2, K("extracted")), K("position"), EmptyStr))

merge_defaults(data, jd_present) ==
    LET d0 == IF IsDict(data) THEN data ELSE EmptyDict
        d1 == FillMissing(d0, defaults)
        d2 == EnsureNested(EnsureNested(d1, K("extracted")), K("skills_relevance"))
        d3 == DictSet(d2, K("extracted"),
                      FillMissing(Item(d2, K("extracted")), DefaultExtracted))
        d4 == DictSet(d3, K("skills_relevance"),
                      FillMissing(Item(d3, K("skills_relevance")), DefaultSkillsRelevance))
    IN  IF jd_present THEN d4 ELSE ApplyNoJd(d4)

(***************************************************************************)
(* The heuristic of _analyze_resume_only (its lines after the model call). *)
(***************************************************************************)
\* str.lower() on the letters of the modelled words
LowerTable ==
    ("Python" :> "python") @@ ("SQL" :> "sql") @@ ("Java" :> "java")
    @@ ("React" :> "react") @@ ("Lorem" :> "lorem") @@ ("C" :> "c")
    @@ ("JAVA" :> "java") @@ ("C++" :> "c++") @@ ("Asha" :> "asha")
    @@ ("Ravi" :> "ravi") @@ ("ERROR" :> "error") @@ ("Could" :> "could")
    @@ ("PDF" :> "pdf") @@ ("DeviceRGB" :> "devicergb")
lower(t) ==
    [i \in DOMAIN t |-> IF t[i] \in DOMAIN LowerTable THEN LowerTable[t[i]] ELSE t[i]]

\* str.split(): the maximal runs without whitespace, in order
RECURSIVE SkipSpace(_, _)
SkipSpace(t, i) == IF i <= Len(t) /\ IsSpace(t[i]) THEN SkipSpace(t, i + 1) ELSE i
RECURSIVE SplitFrom(_, _)
SplitFrom(t, i) ==
    LET b == SkipSpace(t, i)
    IN  IF b > Len(t) THEN <<>>
        ELSE LET ws == {j \in b..Len(t) : IsSpace(t[j])}
                 e == IF ws = {} THEN Len(t) + 1 ELSE SetMin(ws)
             IN  <<SubSeq(t, b, e - 1)>> \o SplitFrom(t, e)
split(t) == SplitFrom(t, 1)

\* words joined by single spaces
RECURSIVE Phrase(_)
Phrase(ws) ==
    IF Len(ws) = 0 THEN <<>>
    ELSE IF Len(ws) = 1 THEN <<ws[1]>>
    ELSE <<ws[1], " ">> \o Phrase(Tail(ws))

SKILL_VOCABULARY ==
    << <<"python">>, <<"java">>, <<"sql">>, <<"javascript">>, <<"react">>,
       <<"aws">>, <<"docker">>, <<"c++">>, <<"c">> >>

\* [w for w in vocabulary if w in words], as a list of str
InWords(words) == {words[j] : j \in DOMAIN words}
SkillsIn(words) ==
    LET present == InWords(words)
        hits == SelectSeq(SKILL_VOCABULARY, LAMBDA w : w \in present)
    IN  [i \in DOMAIN hits |-> PyStr(hits[i])]

\* xs[:n]
Prefix(xs, n) == SubSeq(xs, 1, IF Len(xs) < n THEN Len(xs) ELSE n)

FALLBACK_SCORE == 55
EXPERIENCE_TOKENS == 40
KEYWORDS_KEPT == 5
RELEVANCE_KEPT == 3

\* ">=" for ">".
ExperienceBucket_AtLeast(n_words) ==
    IF n_words >= EXPERIENCE_TOKENS
    THEN PyStr(<<"1-2", " ", "years">>) ELSE S("Fresher")

ExperienceBucket(n_words) ==
    IF n_words > EXPERIENCE_TOKENS
    THEN PyStr(<<"1-2", " ", "years">>) ELSE S("Fresher")

\* The dict literal "fallback", from len(words) and skills.
FallbackDict(n_words, skills) ==
    PyDict(<<
      <<K("score"), PyInt(FALLBACK_SCORE)>>,
      <<K("matched_keywords"), PyList(Prefix(skills, KEYWORDS_KEPT))>>,
      <<K("missing_keywords"), EmptyList>>,
      <<K("formatting_issues"), EmptyList>>,
      <<K("suggestions"),
        PyList(<<PyStr(<<"Use", " ", "relevant", " ", "keywords", " ", "from",
                         " ", "job", " ", "description">>),
                 PyStr(<<"Improve", " ", "bullet", " ", "clarity">>)>>)>>,
      <<K("strengths"),
        PyList(<<PyStr(<<"Education", " ", "present">>),
                 PyStr(<<"Projects", " ", "listed">>)>>)>>,
      <<K("extracted"),
        PyDict(<< <<K("name"), EmptyStr>>,
                  <<K("email"), EmptyStr>>,
                  <<K("position"), EmptyStr>>,
                  <<K("experience"), ExperienceBucket(n_words)>>,
                  <<K("skills"), PyList(Prefix(skills, KEYWORDS_KEPT))>> >>)>>,
      <<K("grammatical_errors"), EmptyList>>,
      <<K("professional_tone"), EmptyStr>>,
      <<K("unnecessary_info"), EmptyList>>,
      <<K("experience_relevance"), EmptyStr>>,
      <<K("skills_relevance"),
        PyDict(<< <<K("matched"), PyList(Prefix(skills, RELEVANCE_KEPT))>>,
                  <<K("missing"), EmptyList>> >>)>>,
      <<K("error"), S("fallback_used")>> >>)

fallback(resume_text) ==
    LET words == split(lower(ValOf(resume_text)))
    IN  FallbackDict(Len(words), SkillsIn(words))

heuristic_report(resume_text) == merge_defaults(fallback(resume_text), FALSE)

(***************************************************************************)
(* _analyze_with_model, given the outcome of the one request it sends.     *)
(* An outcome is [kind, body]: kind "ok" with the decoded response body    *)
(* (resp.json()), or "timeout" / "http_error" when requests.post or        *)
(* raise_for_status raises.  The result is [raised, parsed].               *)
(***************************************************************************)
analyze_with_model(outcome, jd_present) ==
    IF outcome.kind # "ok" THEN [raised |-> TRUE, parsed |-> PyNone]
    ELSE LET text == model_response_to_text(outcome.body)
             p == safe_parse_json(text)
         IN  IF p.raised THEN [raised |-> TRUE, parsed |-> PyNone]
             ELSE IF p.val = PyNone THEN [raised |-> FALSE, parsed |-> PyNone]
             ELSE [raised |-> FALSE, parsed |-> merge_defaults(p.val, jd_present)]

\* Without the try/except: the exception of _analyze_with_model goes on.
CatchException_Propagate(r) == r

\* try: ... except Exception as e: print(...)   around _analyze_with_model
CatchException(r) ==
    IF r.raised THEN [raised |-> FALSE, parsed |-> PyNone] ELSE r

\* jd = (job_description or "").strip()
StrippedJd(job_description) == strip(ValOf(PyOr(job_description, EmptyStr)))

\* The two prompts, by what they are built from.
build_resume_only_prompt(resume) ==
    [variant |-> "resume_only", resume |-> resume, jd |-> <<>>]
build_resume_jd_prompt(resume, jd) ==
    [variant |-> "resume_jd", resume |-> resume, jd |-> jd]

(***************************************************************************)
(* analyze_resume_with_ai as a whole, when its first request (if it sends  *)
(* one) ends in o1 and its second in o2: [raised, result, requests].       *)
(***************************************************************************)
resume_only_run(key, resume, o) ==
    IF ~Truthy(key)
    THEN [raised |-> FALSE, result |-> heuristic_report(resume), requests |-> 0]
    ELSE LET r == CatchException(analyze_with_model(o, FALSE))
         IN  IF r.raised
             THEN [raised |-> TRUE, result |-> PyNone, requests |-> 1]
             ELSE IF r.parsed # PyNone
             THEN [raised |-> FALSE, result |-> r.parsed, requests |-> 1]
             ELSE [raised |-> FALSE, result |-> heuristic_report(resume),
                   requests |-> 1]

analyze_run(key, resume, jd, o1, o2) ==
    IF StrippedJd(jd) = <<>> \/ ~Truthy(key) THEN resume_only_run(key, resume, o1)
    ELSE LET r == CatchException(analyze_with_model(o1, TRUE))
         IN  IF r.raised
             THEN [raised |-> TRUE, result |-> PyNone, requests |-> 1]
             ELSE IF r.parsed # PyNone
             THEN [raised |-> FALSE, result |-> r.parsed, requests |-> 1]
             ELSE LET q == resume_only_run(key, resume, o2)
                  IN  [raised |-> q.raised, result |-> q.result,
                       requests |-> q.requests + 1]

(***************************************************************************)
(* Inputs.                                                                 *)
(***************************************************************************)
\* JSON text writers for the response texts below.
Lit(a) == <<QUOTE, a, QUOTE>>
RECURSIVE JoinComma(_)
JoinComma(parts) ==
    IF Len(parts) = 0 THEN <<>>
    ELSE IF Len(parts) = 1 THEN parts[1]
    ELSE parts[1] \o <<",", " ">> \o JoinComma(Tail(parts))
Obj(pairs) ==
    <<"{">> \o JoinComma([i \in DOMAIN pairs |->
                            Lit(pairs[i][1]) \o <<":", " ">> \o pairs[i][2]])
    \o <<"}">>
Arr(items) == <<"[">> \o JoinComma(items) \o <<"]">>

TextFull ==
    Obj(<< <<"score", <<"88">> >>,
           <<"matched_keywords", Arr(<<Lit("python")>>)>>,
           <<"missing_keywords", Arr(<<Lit("Kubernetes")>>)>>,
           <<"formatting_issues", Arr(<<>>)>>,
           <<"suggestions", Arr(<<Lit("Quantify")>>)>>,
           <<"strengths", Arr(<<Lit("Projects")>>)>>,
           <<"extracted",
             Obj(<< <<"name", Lit("Asha")>>, <<"email", Lit("asha@example.org")>>,
                    <<"position", Lit("Engineer")>>,
                    <<"experience", Lit("Fresher")>>,
                    <<"skills", Arr(<<Lit("python"), Lit("sql")>>)>> >>)>>,
           <<"grammatical_errors", Arr(<<>>)>>,
           <<"professional_tone", Lit("formal")>>,
           <<"unnecessary_info", Arr(<<>>)>>,
           <<"experience_relevance", Lit("good")>>,
           <<"skills_relevance",
             Obj(<< <<"matched", Arr(<<Lit("python")>>)>>,
                    <<"missing", Arr(<<Lit("Kubernetes")>>)>> >>)>> >>)
TextPartial == Obj(<< <<"score", <<"77">> >> >>)
TextProse == <<"Here", " ", "is", " ", "the", " ", "result", ":", " ">>
             \o TextPartial \o <<" ", "Thanks!">>
TextHigh == Obj(<< <<"score", <<"150">> >> >>)
TextNegative == Obj(<< <<"score", <<"-5">> >> >>)
TextStringScore == Obj(<< <<"score", Lit("high")>> >>)
TextFloatScore == Obj(<< <<"score", <<"88.5">> >> >>)
TextBadNested ==
    Obj(<< <<"extracted", Lit("n/a")>>,
           <<"skills_relevance", Arr(<<Lit("go")>>)>>,
           <<"missing_keywords", Arr(<<Lit("Go"), Lit("Rust")>>)>> >>)
TextWrongTypes ==
    Obj(<< <<"score", <<"null">> >>,
           <<"matched_keywords", Lit("python")>>,
           <<"professional_tone", <<"1">> >>,
           <<"extracted",
             Obj(<< <<"position", Lit("Dev")>>, <<"skills", <<"null">> >>,
                    <<"name", <<"2">> >> >>)>>,
           <<"skills_relevance", Obj(<< <<"missing", Lit("aws")>> >>)>> >>)
TextNumber == <<"42">>
TextString == Lit("done")
TextArray == Arr(<< <<"1">>, <<"2">> >>)
TextTrue == <<"true">>
TextNull == <<"null">>
TextProseOnly == <<"Sorry", ",", " ", "no", " ", "result">>
TextTruncated == <<"{">> \o Lit("score") \o <<":", " ", "77", ",", " ", QUOTE, "matched">>
TextReversed == <<"}", " ", "text", " ", "{">>
TextTwoObjects == TextPartial \o <<" ", "and", " ">> \o TextHigh
TextMultiline ==
    <<"{", NEWLINE, " ">> \o Lit("score") \o <<":", " ", "100", NEWLINE, "}", NEWLINE>>

\* The texts without a '{' followed later by a '}'.
BracelessTexts ==
    {TextNumber, TextString, TextArray, TextTrue, TextNull, TextProseOnly,
     TextTruncated, TextReversed}
ResponseTexts ==
    {TextFull, TextPartial, TextProse, TextHigh, TextNegative, TextStringScore,
     TextFloatScore, TextBadNested, TextWrongTypes, TextTwoObjects,
     TextMultiline}
    \cup BracelessTexts

\* Response bodies (resp.json()).
One(k, x) == PyDict(<< <<K(k), x>> >>)
ChatBody(content) ==
    One("choices", PyList(<<One("message", One("content", content))>>))
CompletionBody(text) == One("choices", PyList(<<One("text", text)>>))
OddBodies ==
    { CompletionBody(PyStr(TextPartial)),
      One("output", PyStr(TextPartial)),
      One("result", PyStr(TextHigh)),
      EmptyDict,
      One("choices", EmptyList),
      One("error", One("message", S("rate"))),
      EmptyList,
      PyList(<<EmptyDict, S("x")>>),
      PyInt(42),
      PyNone,
      S("oops"),
      ChatBody(EmptyStr),
      ChatBody(PyInt(42)),
      ChatBody(One("score", PyInt(77))),
      One("choices", S("abc")),
      One("choices", PyList(<<S("x")>>)),
      One("choices", PyList(<<One("message", S("hi"))>>)) }
ResponseBodies == {ChatBody(PyStr(t)) : t \in ResponseTexts} \cup OddBodies

ServiceOutcomes ==
    {[kind |-> "ok", body |-> b] : b \in ResponseBodies}
    \cup {[kind |-> k, body |-> PyNone] : k \in {"timeout", "http_error"}}

\* Resume texts: some leading words, then n filler words.
MaxFiller == 41
RECURSIVE Filler(_)
Filler(n) == IF n = 0 THEN <<>> ELSE <<"lorem">> \o Filler(n - 1)
ResumeLeads ==
    { <<>>,
      <<"Python">>,
      <<"c", "docker", "aws", "React", "javascript", "SQL", "Java", "python">> }
ResumeTexts ==
    { PyStr(Phrase(lead \o Filler(n))) :
        lead \in ResumeLeads, n \in {0, MaxFiller - 1, MaxFiller} }

JobDescriptions ==
    { PyNone, EmptyStr, PyStr(<<" ", " ">>),
      PyStr(<<" ", "Backend", " ", "Engineer", " ">>) }

\* os.getenv("GROQ_API_KEY")
ApiKeys == { PyNone, EmptyStr, S("gsk_live") }

(***************************************************************************)
(* /ats-analyze (src/main.py): documents, text extraction, temp files.     *)
(* The bytes of a file are a sequence of chunks, each chunk a tuple of     *)
(* lexemes: a container's opening marker, its pages or paragraphs, and its *)
(* closing marker.                                                         *)
(***************************************************************************)
PDF_MAGIC == <<"%PDF">>
PDF_EOF == <<"%%EOF">>
DOCX_MAGIC == <<"PK">>
DOCX_EOF == <<"PK-END">>
Markers == {PDF_MAGIC, PDF_EOF, DOCX_MAGIC, DOCX_EOF}
PdfDocument(pages) == <<PDF_MAGIC>> \o pages \o <<PDF_EOF>>
DocxDocument(paragraphs) == <<DOCX_MAGIC>> \o paragraphs \o <<DOCX_EOF>>

\* One document, whole, between its markers.
WellFormed(content, magic, eof) ==
    /\ Len(content) >= 2
    /\ content[1] = magic
    /\ content[Len(content)] = eof
    /\ \A i \in 2..(Len(content) - 1) : content[i] \notin Markers
\* The pages or paragraphs among the chunks.
Body(content) == SelectSeq(content, LAMBDA c : c \notin Markers)

\* The outcome of an extraction: an exception, or the text.
ExtractRaised == [raised |-> TRUE, text |-> <<>>]
Extracted(t) == [raised |-> FALSE, text |-> t]

\* A page is <<its text layer, its blocks>>; a block is the tuple PyMuPDF
\* gives, (x0, y0, x1, y1, text, block_no, block_type), type 1 for an image.
Page(text, blocks) == <<text, blocks>>
Block(text, no, type) == <<0, 0, 595, 842, text, no, type>>
TextPage(text) == Page(text, <<Block(text, 0, 0)>>)
\* page.get_text("blocks"): whether image blocks are listed depends on the
\* installed PyMuPDF's default flags (images).
get_text_blocks(page, images) ==
    SelectSeq(page[2], LAMBDA blk : images \/ blk[7] = 0)
\* " ".join(parts)
RECURSIVE JoinSpace(_)
JoinSpace(parts) ==
    IF parts = <<>> THEN <<>>
    ELSE IF Len(parts) = 1 THEN parts[1]
    ELSE parts[1] \o <<" ">> \o JoinSpace(Tail(parts))
\* " ".join([blk[4] for blk in blocks if len(blk) > 4])
PageBlocksText(page, images) ==
    LET kept == SelectSeq(get_text_blocks(page, images), LAMBDA blk : Len(blk) > 4)
    IN  JoinSpace([i \in DOMAIN kept |-> kept[i][5]])
PageText(page, images) ==
    IF strip(page[1]) = <<>> THEN PageBlocksText(page, images) ELSE page[1]
\* text += page_text + "\n", over the pages
RECURSIVE PdfText(_, _)
PdfText(pages, images) ==
    IF pages = <<>> THEN <<>>
    ELSE PageText(pages[1], images) \o <<NEWLINE>> \o PdfText(Tail(pages), images)

\* fitz.open raises on a missing, empty or non-PDF file; what it makes of
\* bytes that start as a PDF and are not one whole document is either.
extract_text_from_pdf(file) ==
    IF ~file.exists \/ file.content = <<>> THEN {ExtractRaised}
    ELSE IF file.content[1] # PDF_MAGIC THEN {ExtractRaised}
    ELSE IF WellFormed(file.content, PDF_MAGIC, PDF_EOF)
    THEN {Extracted(strip(PdfText(Body(file.content), images))) : images \in BOOLEAN}
    ELSE {ExtractRaised}
         \cup {Extracted(strip(PdfText(Body(file.content), images))) :
                  images \in BOOLEAN}

\* "\n".join(lines)
RECURSIVE JoinLines(_)
JoinLines(lines) ==
    IF lines = <<>> THEN <<>>
    ELSE IF Len(lines) = 1 THEN lines[1]
    ELSE lines[1] \o <<NEWLINE>> \o JoinLines(Tail(lines))
DocxText(paragraphs) ==
    LET kept == SelectSeq(paragraphs, LAMBDA q : strip(q) # <<>>)
    IN  JoinLines([i \in DOMAIN kept |-> strip(kept[i])])
extract_text_from_docx(file) ==
    IF ~file.exists \/ file.content = <<>> THEN {ExtractRaised}
    ELSE IF file.content[1] # DOCX_MAGIC THEN {ExtractRaised}
    ELSE IF WellFormed(file.content, DOCX_MAGIC, DOCX_EOF)
    THEN {Extracted(DocxText(Body(file.content)))}
    ELSE {ExtractRaised, Extracted(DocxText(Body(file.content)))}

\* ats_utils.extract_any.extract_text_from_file
\* lines 33-50, after the os.path.exists test: the file is read here.
extract_by_ext(ext, file) ==
    IF ext = "pdf" THEN extract_text_from_pdf(file)
    ELSE IF ext = "docx" THEN extract_text_from_docx(file)
    ELSE {Extracted(<<>>)}
extract_text_from_file(ext, file) ==
    IF ~file.exists THEN {Extracted(<<>>)}
    ELSE extract_by_ext(ext, file)

\* The try block of ats_analyze (lines 103-119).  The import of line 110
\* succeeds in every running application: main.py imports jobmatcher at
\* load (line 44), which imports ats_utils.extract_any (jobmatcher.py:5).
ExtractText(ext, file) ==
    IF ext = "pdf" THEN extract_text_from_pdf(file)
    ELSE IF ext = "docx" THEN extract_text_from_docx(file)
    ELSE extract_text_from_file(ext, file)

\* file.filename.split(".")[-1].lower(); a filename is the tuple of its
\* dot-separated parts.
file_ext(filename) == lower(<<filename[Len(filename)]>>)[1]
temp_path(ext) == <<"temp", ext>>

\* len() of a str: the characters of its lexemes.
CharLen ==
    ("Asha" :> 4) @@ ("Ravi" :> 4) @@ ("Python" :> 6) @@ ("Java" :> 4)
    @@ ("developer" :> 9) @@ ("engineer" :> 8) @@ ("backend" :> 7)
    @@ ("services" :> 8) @@ ("lorem" :> 5) @@ (" " :> 1) @@ (NEWLINE :> 1)
    @@ ("<image" :> 6) @@ (":" :> 1) @@ ("," :> 1) @@ ("DeviceRGB" :> 9)
    @@ ("width" :> 5) @@ ("1240" :> 4) @@ ("height" :> 6) @@ ("1754" :> 4)
    @@ ("bpc" :> 3) @@ ("8>" :> 2)
RECURSIVE len(_)
len(t) == IF t = <<>> THEN 0 ELSE CharLen[Head(t)] + len(Tail(t))

MIN_TEXT_CHARS == 50
UNREADABLE ==
    <<"ERROR", ":", " ", "Could", " ", "not", " ", "extract", " ", "readable",
      " ", "resume", " ", "text.">>
\* if len(resume_text) < 50: resume_text = "ERROR: ..."
OrUnreadable(text) == IF len(text) < MIN_TEXT_CHARS THEN UNREADABLE ELSE text

\* f.write(data) on a file opened at position 0
Overlay(content, data) == data \o SubSeq(content, Len(data) + 1, Len(content))

\* The report of the except branch around analyze_resume_with_ai.
AnalyzerFailedReport ==
    PyDict(<< <<K("score"), PyInt(0)>>,
              <<K("matched_keywords"), EmptyList>>,
              <<K("missing_keywords"), EmptyList>>,
              <<K("formatting_issues"), EmptyList>>,
              <<K("suggestions"), EmptyList>>,
              <<K("strengths"), EmptyList>>,
              <<K("extracted"), DefaultExtracted>>,
              <<K("grammatical_errors"), EmptyList>>,
              <<K("professional_tone"), EmptyStr>>,
              <<K("unnecessary_info"), EmptyList>>,
              <<K("experience_relevance"), EmptyStr>>,
              <<K("skills_relevance"), DefaultSkillsRelevance>>,
              <<K("error"), PyStr(<<"analyzer_failed", ":", " ", "exception">>)>> >>)

\* Uploads.  Each invocation has its own resume: a PDF of two pages (63
\* characters of text) or of one page (49 characters), a DOCX of three
\* paragraphs of which one is blank, bytes that are no PDF, a text file.
MaxInvocations == 2
Invocations == 1..MaxInvocations
OwnName(i) == IF i % 2 = 1 THEN "Asha" ELSE "Ravi"
OwnSkill(i) == IF i % 2 = 1 THEN "Python" ELSE "Java"
OwnLine(i) ==
    Phrase(<<OwnName(i), OwnSkill(i), "developer", "backend", "services",
             "lorem", "lorem">>)
OwnPages(i) ==
    IF i % 2 = 1 THEN <<TextPage(OwnLine(i)), TextPage(Phrase(<<"lorem", "lorem">>))>>
    ELSE <<TextPage(OwnLine(i))>>
\* The text PyMuPDF gives an image block.
IMAGE_TEXT ==
    <<"<image", ":", " ", "DeviceRGB", ",", " ", "width", ":", " ", "1240", ",",
      " ", "height", ":", " ", "1754", ",", " ", "bpc", ":", " ", "8>">>
\* A scanned page (no text layer, one image block) and a page whose only
\* text is whitespace.
ScannedPages ==
    <<Page(<<>>, <<Block(IMAGE_TEXT, 0, 1)>>),
      Page(<<" ", NEWLINE>>, <<Block(<<" ", NEWLINE>>, 0, 0)>>)>>
Uploads(i) ==
    { [filename |-> <<"cv", IF i % 2 = 1 THEN "pdf" ELSE "PDF">>,
       bytes |-> PdfDocument(OwnPages(i))],
      [filename |-> <<"cv", "docx">>,
       bytes |-> DocxDocument(<<OwnLine(i), <<" ">>, <<" ", "lorem", " ">> >>)],
      [filename |-> <<"scan", "pdf">>, bytes |-> << <<"lorem">> >>],
      [filename |-> <<"photo", "pdf">>, bytes |-> PdfDocument(ScannedPages)],
      [filename |-> <<"notes", "txt">>, bytes |-> <<OwnLine(i)>>] }
UploadJobDescriptions == {EmptyStr, PyStr(<<" ", "Backend", " ", "Engineer", " ">>)}
\* What analyze_resume_with_ai(text, jd) ends in, [raised, result], when
\* each of its requests times out or is answered with TextPartial (the
\* object {"score": 77}): the heuristic report, or that object normalised
\* for the prompt it answered.
ParsedPartial == One("score", PyInt(77))
AnalyzerOutcomes(key, text, jd) ==
    {[raised |-> FALSE, result |-> rep] :
       rep \in {heuristic_report(text)}
                \cup (IF Truthy(key)
                      THEN {merge_defaults(ParsedPartial, FALSE),
                            merge_defaults(ParsedPartial, StrippedJd(jd) # <<>>)}
                      ELSE {})}
TempPaths == {temp_path(e) : e \in {"pdf", "docx", "txt"}}
MaxRecommends == 1
Recommends == 1..MaxRecommends
\* The resume sent to /api/ai-recommend: its filename makes
\* os.path.join(tempfile.gettempdir(), filename) the path temp.pdf of
\* ats_analyze (an absolute filename, or the temporary directory being the
\* working directory).  Under any other path the call touches no file that
\* ats_analyze uses.
RecommendUploads ==
    {[filename |-> temp_path("pdf"), bytes |-> PdfDocument(<<TextPage(OwnLine(2))>>)]}
Paths == TempPaths \cup {u.filename : u \in RecommendUploads}
Inodes == 1..(MaxInvocations + MaxRecommends)
userId(i) == S(OwnName(i))

\* Inputs of _merge_defaults: a dict with any of these values for each
\* group of keys (<<>>: the keys are absent), or a value that is no dict.
ScoreOptions ==
    { <<>>, << <<K("score"), PyInt(88)>> >>, << <<K("score"), S("high")>> >> }
MissingKeywordsOptions ==
    { <<>>, << <<K("missing_keywords"), EmptyList>> >>,
      << <<K("missing_keywords"), PyList(<<S("Go"), S("Rust")>>)>> >> }
FullExtracted ==
    PyDict(<< <<K("name"), S("Asha")>>,
              <<K("email"), S("asha@example.org")>>,
              <<K("position"), S("Engineer")>>,
              <<K("experience"), PyStr(<<"1-2", " ", "years">>)>>,
              <<K("skills"), PyList(<<S("python")>>)>> >>)
ExtractedOptions ==
    { <<>>, << <<K("extracted"), S("n/a")>> >>, << <<K("extracted"), PyNone>> >>,
      << <<K("extracted"), EmptyDict>> >>,
      << <<K("extracted"), One("position", S("Dev"))>> >>,
      << <<K("extracted"), FullExtracted>> >> }
FullSkillsRelevance ==
    PyDict(<< <<K("matched"), PyList(<<S("python")>>)>>,
              <<K("missing"), PyList(<<S("aws")>>)>> >>)
SkillsRelevanceOptions ==
    { <<>>, << <<K("skills_relevance"), PyList(<<S("go")>>)>> >>,
      << <<K("skills_relevance"), One("missing", PyList(<<S("aws")>>))>> >>,
      << <<K("skills_relevance"), FullSkillsRelevance>> >> }
OtherKeysOptions ==
    { <<>>,
      << <<K("matched_keywords"), PyList(<<S("python")>>)>>,
         <<K("formatting_issues"), EmptyList>>,
         <<K("suggestions"), PyList(<<S("Quantify")>>)>>,
         <<K("strengths"), EmptyList>>,
         <<K("grammatical_errors"), EmptyList>>,
         <<K("professional_tone"), S("formal")>>,
         <<K("unnecessary_info"), PyNone>>,
         <<K("experience_relevance"), EmptyStr>> >> }
ErrorOptions == { <<>>, << <<K("error"), S("fallback_used")>> >> }
NormInputs ==
    { PyDict(a \o b \o c \o d \o e \o f) :
        a \in ScoreOptions, b \in MissingKeywordsOptions, c \in ExtractedOptions,
        d \in SkillsRelevanceOptions, e \in OtherKeysOptions, f \in ErrorOptions }
    \cup { PyNone, PyInt(42), S("done"), PyList(<<PyInt(1), PyInt(2)>>) }

(***************************************************************************)
(* State.  Three specifications share the module: Spec (one invocation of  *)
(* analyze_resume_with_ai), SpecNorm (_merge_defaults applied to an input  *)
(* and to its own result) and SpecUpload (concurrent /ats-analyze          *)
(* requests).  Each leaves the others' variables as Init set them.         *)
(***************************************************************************)
VARIABLES
    API_KEY,          \* the module-level credential, read at import
    resume_text,      \* arguments of analyze_resume_with_ai
    job_description,
    pc,               \* "start", "await_jd", "await_ro", "done"
    sent,             \* the prompts posted to the generation service, in order
    replies,          \* the outcomes of those requests, in order
    raised,           \* analyze_resume_with_ai ended by raising
    result,           \* the returned report (None until it returns)
    norm_pc,          \* SpecNorm: "input", "once", "twice"
    norm_in,          \* the data given to _merge_defaults
    norm_jd,          \* its jd_present
    norm_out,         \* _merge_defaults(norm_in, norm_jd)
    norm_again,       \* _merge_defaults(norm_out, norm_jd)
    deployment,       \* SpecUpload: "event_loop" (one thread) or "workers"
    running,          \* the invocation holding the event loop, 0 for none
    fs,               \* the working directory: path -> inode, 0 for no file
    disk,             \* inode -> the chunks of bytes it holds
    upload,           \* invocation -> its UploadFile [filename, bytes]
    form_jd,          \* invocation -> its job_description form field
    inv_pc,           \* invocation -> its position in ats_analyze
    fd,               \* invocation -> the inode its open file f is on, 0 for none
    inv_text,         \* invocation -> its resume_text (None before extraction)
    response,         \* invocation -> [status, id, result] (status 0: none yet)
    db,               \* the documents of the atsHistory collection
    rec_pc,           \* /api/ai-recommend call -> its position in get_text_from_upload
    rec_file,         \* call -> the filename of its resume (<<>> before it is read)
    rec_text,         \* call -> the text get_text_from_upload returned (None before)
    rec_fd,           \* call -> the inode its open file f is on, 0 for none
    parse_pc,         \* SpecParse: "input", "done"
    parse_text,       \* the text given to _safe_parse_json
    parse_out,        \* what it returned
    parse_raised      \* it raised instead

pvars == <<API_KEY, resume_text, job_description, pc, sent, replies, raised, result>>
nvars == <<norm_pc, norm_in, norm_jd, norm_out, norm_again>>
uvars == <<deployment, running, fs, disk, upload, form_jd, inv_pc, fd, inv_text,
           response, db, rec_pc, rec_file, rec_text, rec_fd>>
rvars == <<rec_pc, rec_file, rec_text, rec_fd>>
jvars == <<parse_pc, parse_text, parse_out, parse_raised>>
vars == <<pvars, nvars, uvars, jvars>>

PipelineIdle ==
    /\ API_KEY = PyNone
    /\ resume_text = EmptyStr
    /\ job_description = PyNone
    /\ pc = "idle"
    /\ sent = <<>>
    /\ replies = <<>>
    /\ raised = FALSE
    /\ result = PyNone

NormIdle ==
    /\ norm_pc = "idle"
    /\ norm_in = PyNone
    /\ norm_jd = FALSE
    /\ norm_out = PyNone
    /\ norm_again = PyNone

UploadIdle ==
    /\ deployment = "idle"
    /\ running = 0
    /\ fs = <<>>
    /\ disk = <<>>
    /\ upload = <<>>
    /\ form_jd = <<>>
    /\ inv_pc = <<>>
    /\ fd = <<>>
    /\ inv_text = <<>>
    /\ response = <<>>
    /\ db = {}
    /\ rec_pc = <<>>
    /\ rec_file = <<>>
    /\ rec_text = <<>>
    /\ rec_fd = <<>>

ParseIdle ==
    /\ parse_pc = "idle"
    /\ parse_text = PyNone
    /\ parse_out = PyNone
    /\ parse_raised = FALSE

Init ==
    /\ API_KEY \in ApiKeys
    /\ resume_text \in ResumeTexts
    /\ job_description \in JobDescriptions
    /\ pc = "start"
    /\ sent = <<>>
    /\ replies = <<>>
    /\ raised = FALSE
    /\ result = PyNone
    /\ NormIdle
    /\ UploadIdle
    /\ ParseIdle

Return(report) ==
    /\ pc' = "done"
    /\ result' = report
    /\ raised' = FALSE

\* _analyze_resume_only up to its request, or to its end when it sends none.
EnterResumeOnly ==
    IF Truthy(API_KEY)
    THEN /\ sent' = Append(sent, build_resume_only_prompt(resume_text))
         /\ pc' = "await_ro"
         /\ UNCHANGED <<raised, result>>
    ELSE /\ Return(heuristic_report(resume_text))
         /\ UNCHANGED sent

\* analyze_resume_with_ai from its call to its first request (or its return).
Start ==
    /\ pc = "start"
    /\ IF StrippedJd(job_description) = <<>>
       THEN EnterResumeOnly
       ELSE IF Truthy(API_KEY)
            THEN /\ sent' = Append(sent, build_resume_jd_prompt(
                                     resume_text, StrippedJd(job_description)))
                 /\ pc' = "await_jd"
                 /\ UNCHANGED <<raised, result>>
            ELSE EnterResumeOnly
    /\ UNCHANGED <<API_KEY, resume_text, job_description, replies, nvars, uvars, jvars>>

\* The resume+JD request ends: lines 362-370.
ReplyJd ==
    /\ pc = "await_jd"
    /\ \E o \in ServiceOutcomes :
       \E r \in {CatchException(analyze_with_model(o, TRUE))} :
             /\ replies' = Append(replies, o)
             /\ IF r.raised
                THEN /\ pc' = "done"
                     /\ raised' = TRUE
                     /\ UNCHANGED <<result, sent>>
                ELSE IF r.parsed # PyNone
                     THEN Return(r.parsed) /\ UNCHANGED sent
                     ELSE EnterResumeOnly
    /\ UNCHANGED <<API_KEY, resume_text, job_description, nvars, uvars, jvars>>

\* The resume-only request ends: lines 321-346.
ReplyRo ==
    /\ pc = "await_ro"
    /\ \E o \in ServiceOutcomes :
       \E r \in {CatchException(analyze_with_model(o, FALSE))} :
             /\ replies' = Append(replies, o)
             /\ IF r.raised
                THEN /\ pc' = "done"
                     /\ raised' = TRUE
                     /\ UNCHANGED result
                ELSE IF r.parsed # PyNone
                     THEN Return(r.parsed)
                     ELSE Return(heuristic_report(resume_text))
    /\ UNCHANGED <<API_KEY, resume_text, job_description, sent, nvars, uvars, jvars>>

Next == Start \/ ReplyJd \/ ReplyRo

Spec == Init /\ [][Next]_vars

(***************************************************************************)
(* _merge_defaults on an input, then on its own result (SpecNorm).         *)
(***************************************************************************)
InitNorm ==
    /\ PipelineIdle
    /\ UploadIdle
    /\ ParseIdle
    /\ norm_pc = "input"
    /\ norm_in \in NormInputs
    /\ norm_jd \in BOOLEAN
    /\ norm_out = PyNone
    /\ norm_again = PyNone

Normalize ==
    /\ norm_pc = "input"
    /\ norm_out' = merge_defaults(norm_in, norm_jd)
    /\ norm_pc' = "once"
    /\ UNCHANGED <<norm_in, norm_jd, norm_again, pvars, uvars, jvars>>

NormalizeAgain ==
    /\ norm_pc = "once"
    /\ norm_again' = merge_defaults(norm_out, norm_jd)
    /\ norm_pc' = "twice"
    /\ UNCHANGED <<norm_in, norm_jd, norm_out, pvars, uvars, jvars>>

NextNorm == Normalize \/ NormalizeAgain

SpecNorm == InitNorm /\ [][NextNorm]_vars

(***************************************************************************)
(* Concurrent invocations of ats_analyze (SpecUpload).  Under one event    *)
(* loop an invocation gives way only at "await file.read()"; under workers *)
(* every step of one invocation may fall between two steps of another.     *)
(***************************************************************************)
NoResponse == [status |-> 0, id |-> 0, result |-> PyNone]

InitUpload ==
    /\ API_KEY \in {PyNone, S("gsk_live")}
    /\ resume_text = EmptyStr
    /\ job_description = PyNone
    /\ pc = "idle"
    /\ sent = <<>>
    /\ replies = <<>>
    /\ raised = FALSE
    /\ result = PyNone
    /\ NormIdle
    /\ deployment \in {"event_loop", "workers"}
    /\ running = 0
    /\ fs = [p \in Paths |-> 0]
    /\ disk = [n \in Inodes |-> <<>>]
    /\ upload \in {u \in [Invocations -> UNION {Uploads(i) : i \in Invocations}] :
                     \A i \in Invocations : u[i] \in Uploads(i)}
    /\ form_jd \in {[i \in Invocations |-> jd] : jd \in UploadJobDescriptions}
    /\ inv_pc = [i \in Invocations |-> "open"]
    /\ fd = [i \in Invocations |-> 0]
    /\ inv_text = [i \in Invocations |-> PyNone]
    /\ response = [i \in Invocations |-> NoResponse]
    /\ db = {}
    /\ rec_pc = [k \in Recommends |-> "ready"]
    /\ rec_file = [k \in Recommends |-> <<>>]
    /\ rec_text = [k \in Recommends |-> PyNone]
    /\ rec_fd = [k \in Recommends |-> 0]
    /\ ParseIdle

PathOf(i) == temp_path(file_ext(upload[i].filename))
ReadFile(path) ==
    IF fs[path] = 0 THEN [exists |-> FALSE, content |-> <<>>]
    ELSE [exists |-> TRUE, content |-> disk[fs[path]]]
\* An inode with no name and no open file holds nothing any more.
Collect(d, names, fds) ==
    [n \in DOMAIN d |->
        IF (\E p \in DOMAIN names : names[p] = n) \/ (\E i \in DOMAIN fds : fds[i] = n)
        THEN d[n] ELSE <<>>]
FreeInode ==
    CHOOSE n \in DOMAIN disk :
        /\ \A p \in DOMAIN fs : fs[p] # n
        /\ \A i \in DOMAIN fd : fd[i] # n
        /\ \A k \in DOMAIN rec_fd : rec_fd[k] # n
\* os.remove(temp_path) inside try/except: the name goes if it is there.
Removed(path) == [fs EXCEPT ![path] = 0]

\* The invocations that may take a step that is not a resumption.
Holds(i) == deployment = "workers" \/ running = i
\* The event loop is free to start or resume an invocation.
LoopFree == deployment = "workers" \/ running = 0

\* lines 95-100 up to the await: open(temp_path, "wb") creates or truncates.
Open(i) ==
    /\ inv_pc[i] = "open"
    /\ LoopFree
    /\ LET path == PathOf(i)
           n == IF fs[path] # 0 THEN fs[path] ELSE FreeInode
       IN  /\ fs' = [fs EXCEPT ![path] = n]
           /\ disk' = [disk EXCEPT ![n] = <<>>]
           /\ fd' = [fd EXCEPT ![i] = n]
    /\ inv_pc' = [inv_pc EXCEPT ![i] = "read"]
    /\ UNCHANGED <<running, inv_text, response, db>>
    /\ UNCHANGED <<deployment, upload, form_jd, rvars, pvars, nvars, jvars>>

\* line 100 after the await: f.write(...), and the with block closes f.
WriteClose(i) ==
    /\ inv_pc[i] = "read"
    /\ LoopFree
    /\ fd' = [fd EXCEPT ![i] = 0]
    /\ disk' = Collect([disk EXCEPT ![fd[i]] = Overlay(disk[fd[i]], upload[i].bytes)],
                       fs, fd' \o rec_fd)
    /\ running' = IF deployment = "event_loop" THEN i ELSE 0
    /\ inv_pc' = [inv_pc EXCEPT ![i] = "extract"]
    /\ UNCHANGED <<fs, inv_text, response, db>>
    /\ UNCHANGED <<deployment, upload, form_jd, rvars, pvars, nvars, jvars>>

\* lines 103-113 and 121-122: the extraction, which may raise, and the
\* unreadable sentinel.
Extract(i) ==
    /\ inv_pc[i] = "extract"
    /\ Holds(i)
    /\ \E out \in ExtractText(file_ext(upload[i].filename), ReadFile(PathOf(i))) :
          IF out.raised
          THEN /\ inv_pc' = [inv_pc EXCEPT ![i] = "except"]
               /\ UNCHANGED inv_text
          ELSE /\ inv_text' = [inv_text EXCEPT ![i] = PyStr(OrUnreadable(out.text))]
               /\ inv_pc' = [inv_pc EXCEPT ![i] = "analyze"]
    /\ UNCHANGED <<fs, disk, response, running, fd, db>>
    /\ UNCHANGED <<deployment, upload, form_jd, rvars, pvars, nvars, jvars>>

\* lines 114-119: the except branch: os.remove(temp_path), errors ignored,
\* and HTTPException(500).
ExtractFailed(i) ==
    /\ inv_pc[i] = "except"
    /\ Holds(i)
    /\ fs' = Removed(PathOf(i))
    /\ disk' = Collect(disk, fs', fd \o rec_fd)
    /\ response' = [response EXCEPT ![i].status = 500]
    /\ inv_pc' = [inv_pc EXCEPT ![i] = "failed"]
    /\ running' = 0
    /\ UNCHANGED <<fd, inv_text, db>>
    /\ UNCHANGED <<deployment, upload, form_jd, rvars, pvars, nvars, jvars>>

\* lines 125-143: analyze_resume_with_ai, whose requests end in o1 and o2.
Analyze(i) ==
    /\ inv_pc[i] = "analyze"
    /\ Holds(i)
    /\ \E r \in AnalyzerOutcomes(API_KEY, inv_text[i], form_jd[i]) :
          response' = [response EXCEPT ![i].result =
                          IF r.raised THEN AnalyzerFailedReport ELSE r.result]
    /\ inv_pc' = [inv_pc EXCEPT ![i] = "cleanup"]
    /\ UNCHANGED <<running, fs, disk, fd, inv_text, db>>
    /\ UNCHANGED <<deployment, upload, form_jd, rvars, pvars, nvars, jvars>>

\* lines 146-149: os.remove(temp_path), errors ignored.
Cleanup(i) ==
    /\ inv_pc[i] = "cleanup"
    /\ Holds(i)
    /\ fs' = Removed(PathOf(i))
    /\ disk' = Collect(disk, fs', fd \o rec_fd)
    /\ inv_pc' = [inv_pc EXCEPT ![i] = "persist"]
    /\ UNCHANGED <<running, fd, inv_text, response, db>>
    /\ UNCHANGED <<deployment, upload, form_jd, rvars, pvars, nvars, jvars>>

\* Persist without the try/except around the Firestore write: a write that
\* raises ends the request in an error.
Persist_Unguarded(i) ==
    /\ inv_pc[i] = "persist"
    /\ Holds(i)
    /\ \E stored \in BOOLEAN :
          IF stored
          THEN /\ db' = db \cup {[id |-> i, userId |-> userId(i),
                                  score |-> DictGetOr(response[i].result, K("score"),
                                                      PyInt(0)),
                                  result |-> response[i].result]}
               /\ response' = [response EXCEPT ![i].status = 200, ![i].id = i]
               /\ inv_pc' = [inv_pc EXCEPT ![i] = "done"]
          ELSE /\ db' = db
               /\ response' = [response EXCEPT ![i].status = 500, ![i].result = PyNone]
               /\ inv_pc' = [inv_pc EXCEPT ![i] = "failed"]
    /\ running' = 0
    /\ UNCHANGED <<fs, disk, fd, inv_text>>
    /\ UNCHANGED <<deployment, upload, form_jd, rvars, pvars, nvars, jvars>>

\* lines 152-168: a fresh id (uuid4, here the invocation's number), the
\* Firestore write, which may raise and is then only logged, the return.
Persist(i) ==
    /\ inv_pc[i] = "persist"
    /\ Holds(i)
    /\ \E stored \in BOOLEAN :
          db' = IF stored
                THEN db \cup {[id |-> i, userId |-> userId(i),
                               score |-> DictGetOr(response[i].result, K("score"),
                                                   PyInt(0)),
                               result |-> response[i].result]}
                ELSE db
    /\ response' = [response EXCEPT ![i].status = 200, ![i].id = i]
    /\ inv_pc' = [inv_pc EXCEPT ![i] = "done"]
    /\ running' = 0
    /\ UNCHANGED <<fs, disk, fd, inv_text>>
    /\ UNCHANGED <<deployment, upload, form_jd, rvars, pvars, nvars, jvars>>

\* What holds the event loop while call k of /api/ai-recommend runs.
RecHolder(k) == MaxInvocations + k
RecHolds(k) == deployment = "workers" \/ running = RecHolder(k)

\* jobmatcher.get_text_from_upload, lines 21-32: open(tmp_path, "wb")
\* creates or truncates.
RecommendOpen(k) ==
    /\ rec_pc[k] = "ready"
    /\ LoopFree
    /\ \E u \in RecommendUploads :
          LET path == u.filename
              n == IF fs[path] # 0 THEN fs[path] ELSE FreeInode
          IN  /\ fs' = [fs EXCEPT ![path] = n]
              /\ disk' = [disk EXCEPT ![n] = <<>>]
              /\ rec_fd' = [rec_fd EXCEPT ![k] = n]
              /\ rec_file' = [rec_file EXCEPT ![k] = u.filename]
    /\ rec_pc' = [rec_pc EXCEPT ![k] = "opened"]
    /\ running' = IF deployment = "event_loop" THEN RecHolder(k) ELSE 0
    /\ UNCHANGED <<fd, inv_pc, inv_text, response, db, rec_text>>
    /\ UNCHANGED <<deployment, upload, form_jd, pvars, nvars, jvars>>

\* line 33: f.write(data), and the with block closes f.
RecommendWrite(k) ==
    /\ rec_pc[k] = "opened"
    /\ RecHolds(k)
    /\ \E u \in RecommendUploads :
          /\ u.filename = rec_file[k]
          /\ rec_fd' = [rec_fd EXCEPT ![k] = 0]
          /\ disk' = Collect([disk EXCEPT ![rec_fd[k]] =
                                 Overlay(disk[rec_fd[k]], u.bytes)],
                             fs, fd \o rec_fd')
    /\ rec_pc' = [rec_pc EXCEPT ![k] = "written"]
    /\ UNCHANGED <<running, fs, fd, inv_pc, inv_text, response, db, rec_file, rec_text>>
    /\ UNCHANGED <<deployment, upload, form_jd, pvars, nvars, jvars>>

\* extract_any.py line 31: if not os.path.exists(file_path): return "".
RecommendExists(k) ==
    /\ rec_pc[k] = "written"
    /\ RecHolds(k)
    /\ IF ReadFile(rec_file[k]).exists
       THEN /\ rec_pc' = [rec_pc EXCEPT ![k] = "checked"]
            /\ UNCHANGED rec_text
       ELSE /\ rec_pc' = [rec_pc EXCEPT ![k] = "extracted"]
            /\ rec_text' = [rec_text EXCEPT ![k] = EmptyStr]
    /\ UNCHANGED <<running, fs, disk, fd, inv_pc, inv_text, response, db, rec_file,
                   rec_fd>>
    /\ UNCHANGED <<deployment, upload, form_jd, pvars, nvars, jvars>>

\* extract_any.py lines 33-50: the file is read; an extraction that raises
\* ends get_text_from_upload with the file left in place.
RecommendExtract(k) ==
    /\ rec_pc[k] = "checked"
    /\ RecHolds(k)
    /\ \E out \in extract_by_ext(file_ext(rec_file[k]), ReadFile(rec_file[k])) :
          IF out.raised
          THEN /\ rec_pc' = [rec_pc EXCEPT ![k] = "failed"]
               /\ running' = 0
               /\ UNCHANGED rec_text
          ELSE /\ rec_pc' = [rec_pc EXCEPT ![k] = "extracted"]
               /\ rec_text' = [rec_text EXCEPT ![k] = PyStr(out.text)]
               /\ UNCHANGED running
    /\ UNCHANGED <<fs, disk, fd, inv_pc, inv_text, response, db, rec_file, rec_fd>>
    /\ UNCHANGED <<deployment, upload, form_jd, pvars, nvars, jvars>>

\* jobmatcher.py lines 37-42: os.remove(tmp_path), errors ignored; return.
RecommendRemove(k) ==
    /\ rec_pc[k] = "extracted"
    /\ RecHolds(k)
    /\ fs' = Removed(rec_file[k])
    /\ disk' = Collect(disk, fs', fd \o rec_fd)
    /\ rec_pc' = [rec_pc EXCEPT ![k] = "done"]
    /\ running' = 0
    /\ UNCHANGED <<fd, inv_pc, inv_text, response, db, rec_file, rec_text, rec_fd>>
    /\ UNCHANGED <<deployment, upload, form_jd, pvars, nvars, jvars>>

NextUpload ==
    \/ \E i \in Invocations :
          \/ Open(i) \/ WriteClose(i) \/ Extract(i) \/ ExtractFailed(i)
          \/ Analyze(i) \/ Cleanup(i) \/ Persist(i)
    \/ \E k \in Recommends :
          \/ RecommendOpen(k) \/ RecommendWrite(k) \/ RecommendExists(k)
          \/ RecommendExtract(k) \/ RecommendRemove(k)

SpecUpload == InitUpload /\ [][NextUpload]_vars

(***************************************************************************)
(* _safe_parse_json on one text (SpecParse).                               *)
(***************************************************************************)
\* What may stand before and after the generated JSON: nothing, prose,
\* whitespace of both kinds, a stray brace.
Prologues ==
    {<<>>, <<"Here", " ", "is", " ", "the", " ", "result", ":", " ">>,
     <<NEWLINE, " ">>, <<FORMFEED>>, <<"}", " ">>, <<"{", " ">>}
Epilogues ==
    {<<>>, <<" ", "Thanks!">>, <<NEWLINE>>, <<FORMFEED>>, <<" ", "}">>, <<" ", "{">>}
ParseInputs ==
    {PyNone} \cup {PyStr(a \o t \o b) : a \in Prologues, t \in ResponseTexts,
                                        b \in Epilogues}

InitParse ==
    /\ PipelineIdle
    /\ NormIdle
    /\ UploadIdle
    /\ parse_pc = "input"
    /\ parse_text \in ParseInputs
    /\ parse_out = PyNone
    /\ parse_raised = FALSE

Resolve ==
    /\ parse_pc = "input"
    /\ \E r \in {safe_parse_json(parse_text)} :
          /\ parse_out' = r.val
          /\ parse_raised' = r.raised
    /\ parse_pc' = "done"
    /\ UNCHANGED <<parse_text, pvars, nvars, uvars>>

NextParse == Resolve

SpecParse == InitParse /\ [][NextParse]_vars

(***************************************************************************)
(* Properties of analyze_resume_with_ai (Spec).                            *)
(***************************************************************************)
SCHEMA_KEYS ==
    {K("score"), K("matched_keywords"), K("missing_keywords"),
     K("formatting_issues"), K("suggestions"), K("strengths"), K("extracted"),
     K("grammatical_errors"), K("professional_tone"), K("unnecessary_info"),
     K("experience_relevance"), K("skills_relevance")}
EXTRACTED_KEYS == {K("name"), K("email"), K("position"), K("experience"), K("skills")}
RELEVANCE_KEYS == {K("matched"), K("missing")}

SchemaComplete(r) ==
    /\ IsDict(r)
    /\ SCHEMA_KEYS \subseteq Keys(r)
    /\ IsDict(Item(r, K("extracted")))
    /\ EXTRACTED_KEYS \subseteq Keys(Item(r, K("extracted")))
    /\ IsDict(Item(r, K("skills_relevance")))
    /\ RELEVANCE_KEYS \subseteq Keys(Item(r, K("skills_relevance")))

Returned == pc = "done" /\ ~raised
JdAbsent == StrippedJd(job_description) = <<>>
Nested(r, k, sub) == Item(Item(r, K(k)), K(sub))
IsStrList(x) == IsList(x) /\ \A i \in DOMAIN ValOf(x) : IsStr(ValOf(x)[i])
\* The text resolved from the i-th reply, None when the request failed.
ResolvedText(i) ==
    IF replies[i].kind = "ok" THEN model_response_to_text(replies[i].body)
    ELSE PyNone
HasBracePair(t) == \E i, j \in DOMAIN t : i < j /\ t[i] = "{" /\ t[j] = "}"
\* Whitespace-separated tokens, counted at their first character.
TokenCount(t) ==
    Cardinality({i \in DOMAIN t : ~IsSpace(t[i]) /\ (i = 1 \/ IsSpace(t[i - 1]))})

\* C1: analyze_resume_with_ai never raises, and the report it returns
\* holds the 12 schema keys, with extracted a record of name, email,
\* position, experience, skills and skills_relevance a record of matched,
\* missing.
C1_TotalAndComplete ==
    /\ ~raised
    /\ pc = "done" => SchemaComplete(result)
\* A report returned after a failed request and a reply that is JSON of a
\* non-object kind.
C1_Witness ==
    /\ Returned
    /\ Len(replies) = 2
    /\ replies[1].kind = "timeout"
    /\ replies[2] = [kind |-> "ok", body |-> ChatBody(PyStr(TextArray))]

\* C2: every field of a returned report has its schema type: score an
\* integer, the keyword and remark fields sequences of strings, the names
\* and tones strings.
C2_TypeCorrect ==
    Returned =>
        /\ TypeOf(Item(result, K("score"))) = "int"
        /\ \A k \in {K("matched_keywords"), K("missing_keywords"),
                     K("formatting_issues"), K("suggestions"), K("strengths"),
                     K("grammatical_errors"), K("unnecessary_info")} :
               IsStrList(Item(result, k))
        /\ IsStrList(Nested(result, "extracted", "skills"))
        /\ IsStrList(Nested(result, "skills_relevance", "matched"))
        /\ IsStrList(Nested(result, "skills_relevance", "missing"))
        /\ \A sub \in {"name", "email", "position", "experience"} :
               IsStr(Nested(result, "extracted", sub))
        /\ IsStr(Item(result, K("professional_tone")))
        /\ IsStr(Item(result, K("experience_relevance")))

\* C3: with a job description that is absent, empty or whitespace-only,
\* the returned report has missing_keywords == [], skills_relevance.missing
\* == [] and extracted.position == "", whatever the service proposed.
C3_JdAbsence ==
    Returned /\ JdAbsent =>
        /\ Item(result, K("missing_keywords")) = EmptyList
        /\ Nested(result, "skills_relevance", "missing") = EmptyList
        /\ Nested(result, "extracted", "position") = EmptyStr
\* Without a job description, the service proposed missing keywords and a
\* position, and the report came from that reply.
C3_Witness ==
    /\ Returned
    /\ JdAbsent
    /\ Len(replies) = 1
    /\ replies[1] = [kind |-> "ok", body |-> ChatBody(PyStr(TextFull))]
    /\ ~HasKey(result, K("error"))

\* C4: the score of every returned report is within 0..100.
C4_ScoreBounds ==
    Returned /\ TypeOf(Item(result, K("score"))) = "int" =>
        /\ 0 <= ValOf(Item(result, K("score")))
        /\ ValOf(Item(result, K("score"))) <= 100

\* C5: when the text resolved from every reply of the service holds no
\* '{' followed later by a '}', the returned report is the heuristic one:
\* error == "fallback_used" and score == 55.
C5_UnparseableFallback ==
    Returned /\ replies # <<>>
      /\ (\A i \in DOMAIN replies :
             IsStr(ResolvedText(i)) /\ ~HasBracePair(ValOf(ResolvedText(i)))) =>
        /\ DictGet(result, K("error")) = S("fallback_used")
        /\ Item(result, K("score")) = PyInt(55)

\* C6 as stated: at most one request is sent in an invocation.
C6_AtMostOneRequest == Len(sent) <= 1

\* C9: without a credential no request is sent, nothing is raised, and the
\* returned report is the heuristic one: score == 55, error ==
\* "fallback_used", extracted.experience == "1-2 years" exactly when the
\* resume has more than 40 whitespace-separated tokens, else "Fresher".
C9_NoCredential ==
    ~Truthy(API_KEY) =>
        /\ sent = <<>>
        /\ ~raised
        /\ pc = "done" =>
              /\ Item(result, K("score")) = PyInt(55)
              /\ DictGet(result, K("error")) = S("fallback_used")
              /\ Nested(result, "extracted", "experience") =
                    IF TokenCount(ValOf(resume_text)) > 40
                    THEN PyStr(<<"1-2", " ", "years">>) ELSE S("Fresher")
\* Without a credential, a resume of exactly 40 tokens was analysed against
\* a job description.
C9_Witness ==
    /\ Returned
    /\ API_KEY = PyNone
    /\ ~JdAbsent
    /\ TokenCount(ValOf(resume_text)) = 40
    /\ Nested(result, "extracted", "experience") = S("Fresher")

(***************************************************************************)
(* Properties of _merge_defaults (SpecNorm).                               *)
(***************************************************************************)
NESTED_KEYS == {K("extracted"), K("skills_relevance")}

\* C7: _merge_defaults applied to its own result, with the same
\* jd_present, gives that result again.
C7_Idempotent == norm_pc = "twice" => norm_again = norm_out
\* Without a job description, an input with proposed missing keywords and
\* a non-record extracted was normalised twice, the first time changing it.
C7_Witness ==
    /\ norm_pc = "twice"
    /\ ~norm_jd
    /\ IsDict(norm_in)
    /\ DictGet(norm_in, K("missing_keywords")) = PyList(<<S("Go"), S("Rust")>>)
    /\ DictGet(norm_in, K("extracted")) = S("n/a")
    /\ norm_out # norm_in

\* The fields _merge_defaults adds to a dict x: each absent key, top-level
\* or nested, has its default in y.
AddsDefaults(x, y) ==
    /\ Keys(y) = Keys(x) \cup SCHEMA_KEYS
    /\ \A k \in SCHEMA_KEYS \ (Keys(x) \cup NESTED_KEYS) :
           Item(y, k) = Item(defaults, k)
    /\ \A k \in NESTED_KEYS :
           LET had == IF IsDict(DictGet(x, k)) THEN Item(x, k) ELSE EmptyDict
           IN  /\ Keys(Item(y, k)) = Keys(had) \cup Keys(Item(defaults, k))
               /\ \A sub \in Keys(Item(defaults, k)) \ Keys(had) :
                      Item(Item(y, k), sub) = Item(Item(defaults, k), sub)
\* Every nested field present in a record extracted / skills_relevance of
\* x has its value in y.
KeepsNested(x, y) ==
    \A k \in NESTED_KEYS \cap Keys(x) :
        IsDict(Item(x, k)) =>
            \A sub \in Keys(Item(x, k)) :
                Item(Item(y, k), sub) = Item(Item(x, k), sub)

\* C8 as stated: with jd_present true, every top-level or nested field
\* present in the input has its value in the result.
C8_NeverChangesPresent ==
    norm_pc # "input" /\ norm_jd /\ IsDict(norm_in) =>
        /\ \A k \in Keys(norm_in) \ NESTED_KEYS : Item(norm_out, k) = Item(norm_in, k)
        /\ \A k \in NESTED_KEYS \cap Keys(norm_in) :
               ~IsDict(Item(norm_in, k)) => Item(norm_out, k) = Item(norm_in, k)
        /\ KeepsNested(norm_in, norm_out)
\* C8: with jd_present true, _merge_defaults keeps the value of every
\* present top-level field other than extracted and skills_relevance, and
\* of every nested field present in an extracted / skills_relevance that is
\* a record; an extracted or skills_relevance that is present but no
\* record is replaced by the record of its defaults; the absent fields are
\* added from the defaults; a schema-complete input comes back unchanged.
C8_PassThrough ==
    norm_pc # "input" /\ norm_jd /\ IsDict(norm_in) =>
        /\ \A k \in Keys(norm_in) \ NESTED_KEYS : Item(norm_out, k) = Item(norm_in, k)
        /\ \A k \in NESTED_KEYS \cap Keys(norm_in) :
               ~IsDict(Item(norm_in, k)) => Item(norm_out, k) = Item(defaults, k)
        /\ KeepsNested(norm_in, norm_out)
        /\ AddsDefaults(norm_in, norm_out)
        /\ SchemaComplete(norm_in) => norm_out = norm_in
\* With jd_present true, an input with a score, proposed missing keywords,
\* one nested field and a non-record skills_relevance was normalised.
C8_Witness ==
    /\ norm_pc = "once"
    /\ norm_jd
    /\ IsDict(norm_in)
    /\ DictGet(norm_in, K("score")) = PyInt(88)
    /\ DictGet(norm_in, K("missing_keywords")) = PyList(<<S("Go"), S("Rust")>>)
    /\ DictGet(norm_in, K("extracted")) = One("position", S("Dev"))
    /\ DictGet(norm_in, K("skills_relevance")) = PyList(<<S("go")>>)
    /\ Nested(norm_out, "extracted", "position") = S("Dev")

(***************************************************************************)
(* Properties of concurrent /ats-analyze invocations (SpecUpload).         *)
(***************************************************************************)
\* What the extraction of invocation i gives when no other invocation
\* touches its temp file: the file holds its upload's bytes.
AloneOutcomes(i) ==
    ExtractText(file_ext(upload[i].filename),
                [exists |-> TRUE, content |-> upload[i].bytes])

\* C10: in every interleaving each invocation extracts the text of its own
\* upload, and none fails where it would not fail alone.
C10_Isolation ==
    \A i \in Invocations :
        /\ inv_text[i] # PyNone =>
              \E out \in AloneOutcomes(i) :
                  ~out.raised /\ inv_text[i] = PyStr(OrUnreadable(out.text))
        /\ response[i].status = 500 => \E out \in AloneOutcomes(i) : out.raised

\* The uploads whose own bytes give no usable text: the conversion raises
\* (a corrupt document) or yields fewer than 50 characters (a document of
\* another container type, a scanned page without a listed image block).
OwnUnreadable(i) ==
    \A out \in AloneOutcomes(i) : out.raised \/ len(out.text) < MIN_TEXT_CHARS

\* C11: extraction failure is never fatal: an invocation whose upload cannot
\* be converted to text does not end in an error, and the invocation that
\* returns carries a complete report.
C11_ExtractionNeverFatal ==
    \A i \in Invocations :
        OwnUnreadable(i) =>
            /\ response[i].status # 500
            /\ inv_pc[i] # "failed"
            /\ inv_pc[i] = "done" =>
                  response[i].status = 200 /\ SchemaComplete(response[i].result)

\* The atsHistory document Persist(i) hands to the store.
DocOf(i, report) ==
    [id |-> i, userId |-> userId(i),
     score |-> DictGetOr(report, K("score"), PyInt(0)), result |-> report]
PersistStep(i) == inv_pc[i] = "persist" /\ inv_pc'[i] # "persist"

\* C12: persistence failure does not affect the result: an invocation at
\* the persistence step can always take it, and whether the write succeeds
\* or raises the step ends the invocation with status 200, the very report
\* analyze produced (the one handed to the store) and an identifier no
\* stored document and no other response carries.
C12_PersistenceHarmless ==
    /\ [](\A i \in Invocations :
            /\ inv_pc[i] = "persist" /\ Holds(i) => ENABLED Persist(i)
            /\ inv_pc[i] = "done" => response[i].status = 200)
    /\ [][\A i \in Invocations :
            PersistStep(i) =>
                /\ inv_pc'[i] = "done"
                /\ response'[i].status = 200
                /\ response'[i].result = response[i].result
                /\ response'[i].id \notin {d.id : d \in db}
                /\ \A j \in Invocations \ {i} : response[j].id # response'[i].id
                /\ db' \in {db, db \cup {DocOf(response'[i].id, response[i].result)}}]_vars
\* An invocation has returned its report although its write raised.
C12_Witness ==
    \E i \in Invocations :
        /\ inv_pc[i] = "done"
        /\ response[i].status = 200
        /\ SchemaComplete(response[i].result)
        /\ \A d \in db : d.id # response[i].id

\* A job description was supplied and the resume+JD attempt gave no report:
\* the request failed, or its text could not be parsed.
JdAttemptFailed ==
    /\ ~JdAbsent
    /\ replies # <<>>
    /\ \/ replies[1].kind # "ok"
       \/ LET p == safe_parse_json(ResolvedText(1))
          IN  p.raised \/ p.val = PyNone
IsHeuristicReport(r) ==
    /\ Item(r, K("score")) = PyInt(FALLBACK_SCORE)
    /\ DictGet(r, K("error")) = S("fallback_used")

\* C13 as stated: after a failed resume+JD attempt no further request is
\* sent and the returned report is the heuristic one (score == 55, error ==
\* "fallback_used").
C13_DirectHeuristic ==
    JdAttemptFailed =>
        /\ Len(sent) = 1
        /\ Returned => IsHeuristicReport(result)

\* The two stages on a tuple of lexemes s: the parse of s as a whole, else
\* the parse of s from its first '{' to its last '}', else None.
TwoStage(s) ==
    LET whole == json_loads(s)
        opens == {i \in DOMAIN s : s[i] = "{"}
        closes == {i \in DOMAIN s : s[i] = "}"}
    IN  IF ~whole.raised THEN whole.val
        ELSE IF opens # {} /\ closes # {} /\ SetMin(opens) < SetMax(closes)
             THEN LET inner == json_loads(SubSeq(s, SetMin(opens), SetMax(closes)))
                  IN  IF inner.raised THEN PyNone ELSE inner.val
        ELSE PyNone
Braceless(s) == \A i \in DOMAIN s : s[i] \notin {"{", "}"}
\* The object {"score": 77} between prose without braces comes back intact.
RecoversEmbedded ==
    \A a \in Prologues, b \in Epilogues :
        Braceless(a) /\ Braceless(b) /\ parse_text = PyStr(a \o TextPartial \o b) =>
            parse_out = ParsedPartial /\ Item(parse_out, K("score")) = PyInt(77)

\* C14 as stated: the result is the two-stage recovery of the text t
\* itself, None for None, and nothing is raised.
C14_TwoStageOfText ==
    parse_pc = "done" =>
        /\ ~parse_raised
        /\ parse_out = IF parse_text = PyNone THEN PyNone
                       ELSE TwoStage(ValOf(parse_text))
        /\ RecoversEmbedded
====
